---- MODULE Spec2Model ----
(***************************************************************************)
(* State-machine model of the statin recommendation service (Variant C,    *)
(* src/app.py), its data model (src/models.py), the recommendation engine  *)
(* (src/statin_logic.py) and the administrative CLI (src/app.py).          *)
(*                                                                         *)
(* One browser (one signed session cookie, one client address) talks to    *)
(* the web application, one request at a time, while an operator runs CLI  *)
(* commands against the same store.  A handler that touches the store      *)
(* twice (identity lookup, then a query or a commit) is two steps, so that *)
(* a CLI command can commit in between.                                    *)
(*                                                                         *)
(* The rate limiter (slowapi) stands in front of the handlers.  Its        *)
(* verdict on a POST /login is an input of the login action: Spec takes    *)
(* either verdict, SpecLimiter computes it from the limiter's storage and  *)
(* the clock.  A request the service-wide default limits reject reaches no *)
(* handler and is no exchange of this model.                               *)
(*                                                                         *)
(* Spec is the whole service with one operator, whose commands commit in   *)
(* one step.  SpecCli is the CLI with two operators and a command's lookup *)
(* and commit as separate steps; SpecEngine, SpecPages and SpecLimiter     *)
(* drive the engine, the dashboard's pagination and the login limiter over *)
(* the ranges of inputs that their thresholds need.                        *)
(*                                                                         *)
(* Option values (Python None / a missing session key) are sets with zero  *)
(* or one element.  Lab values are decimals; bilirubin is kept in tenths   *)
(* of mg/dL so that 2.0 and 2.1 are the integers 20 and 21.  Text is a     *)
(* sequence of lines (the text split at "\n").  The en dash and the        *)
(* multiplication sign of the source's literals are written - and x.       *)
(***************************************************************************)
EXTENDS Integers, Sequences, FiniteSets, TLC

(***************************************************************************)
(* Bounds of the model.                                                    *)
(***************************************************************************)
MaxUserId == 2
MaxEvalId == 2
\* POST /login requests of a behaviour, and the last second of the clock
MaxLoginRequests == 8
MaxClock == 60
\* evaluations of one user's history, and the pages the browser asks for
MaxStored == 25
MaxPage == 4
\* the page and the total of a Pagination constructed on its own
MaxRequestedPage == 8
MaxTotal == 12

(***************************************************************************)
(* Program constants.                                                      *)
(***************************************************************************)
ULN_CK == 200
ULN_ALT == 40
\* 2.0 mg/dL, in tenths
BILIRUBIN_THRESHOLD == 20
DASHBOARD_ITEMS_PER_PAGE == 10
TOOL_RECENT_EVALS_COUNT == 5
GUEST_ID == 0

HTTP_200 == 200
HTTP_303 == 303
HTTP_400 == 400
HTTP_401 == 401
HTTP_422 == 422
HTTP_429 == 429
HTTP_500 == 500

Usernames == {"alice", "bob"}
Passwords == {"pw1", "pw2"}

MSG_LOGIN_FIRST == "login_required_message"
MSG_BAD_CREDENTIALS == "bad_credentials_message"
MSG_AUTH_REQUIRED == "Authentication required."
MSG_INVALID_INPUT == "Invalid input format. Please ensure all values are numbers."
MSG_DB_ERROR == "A database error occurred."

(***************************************************************************)
(* Recommendation engine (src/statin_logic.py).                            *)
(***************************************************************************)
CK_HYDRATE == <<"CK: Withdraw statin, hydrate, and monitor renal function.", "">>
CK_WITHDRAW == <<"CK: Withdraw statin. Consider nonstatin-related causes and modify risk factors.", "">>
CK_WITHDRAW_SYMPTOMS ==
    << "CK: Withdraw statin. Consider nonstatin-related causes and modify risk factors.",
       "- If symptoms resolve and CK returns to normal: reinitiate statin at a reduced dose or switch to an alternative statin.",
       "- If CK remains elevated (>3x ULN) or symptoms persist: consult a specialist or consider muscle biopsy.",
       "" >>
CK_CONTINUE == <<"CK: Continue statin. Follow up CK in 2-4 weeks. Consider nonstatin-related causes and modify risk factors.", "">>
LIVER_START == <<"Liver: Start statin. Follow-up liver function test in 12 weeks.">>
LIVER_CONSIDER == <<"Liver: Consider starting statin. Reassess liver function and bilirubin in 2-4 weeks.">>
LIVER_BILIRUBIN == <<"Liver: Do not start statin. Bilirubin > 2 mg/dL. Consult hepatic experts.">>
LIVER_TRANSAMINASE == <<"Liver: Do not start statin. Transaminase > 3x ULN. Consult hepatic experts.">>

\* Mutant of CkSection: the 3 x ULN boundary belongs to the branch above it.
CkSectionBoundaryUp(ck_value, muscle_symptoms) ==
    IF ck_value > 10 * ULN_CK \/ (muscle_symptoms /\ ck_value > 10 * ULN_CK)
    THEN CK_HYDRATE
    ELSE IF 3 * ULN_CK <= ck_value /\ ck_value <= 10 * ULN_CK
    THEN CK_WITHDRAW
    ELSE IF ck_value < 3 * ULN_CK
    THEN (IF muscle_symptoms THEN CK_WITHDRAW_SYMPTOMS ELSE CK_CONTINUE)
    ELSE << >>

\* The CK and myopathy assessment: the lines appended to result.
CkSection(ck_value, muscle_symptoms) ==
    IF ck_value > 10 * ULN_CK \/ (muscle_symptoms /\ ck_value > 10 * ULN_CK)
    THEN CK_HYDRATE
    ELSE IF 3 * ULN_CK < ck_value /\ ck_value <= 10 * ULN_CK
    THEN CK_WITHDRAW
    ELSE IF ck_value <= 3 * ULN_CK
    THEN (IF muscle_symptoms THEN CK_WITHDRAW_SYMPTOMS ELSE CK_CONTINUE)
    ELSE << >>

\* Mutant of LiverSection: the bilirubin threshold itself counts as raised.
LiverSectionThresholdRaised(transaminase, bilirubin) ==
    IF transaminase <= ULN_ALT
    THEN LIVER_START
    ELSE IF ULN_ALT < transaminase /\ transaminase <= 3 * ULN_ALT
    THEN (IF bilirubin < BILIRUBIN_THRESHOLD THEN LIVER_CONSIDER ELSE LIVER_BILIRUBIN)
    ELSE LIVER_TRANSAMINASE

\* The liver function assessment: the lines appended to result.
LiverSection(transaminase, bilirubin) ==
    IF transaminase <= ULN_ALT
    THEN LIVER_START
    ELSE IF ULN_ALT < transaminase /\ transaminase <= 3 * ULN_ALT
    THEN (IF bilirubin <= BILIRUBIN_THRESHOLD THEN LIVER_CONSIDER ELSE LIVER_BILIRUBIN)
    ELSE LIVER_TRANSAMINASE

\* str.strip() on a text whose lines carry no leading or trailing blanks:
\* drops the empty lines at both ends.
RECURSIVE StripLeft(_)
StripLeft(lines) ==
    IF lines # << >> /\ Head(lines) = "" THEN StripLeft(Tail(lines)) ELSE lines

RECURSIVE StripRight(_)
StripRight(lines) ==
    IF lines # << >> /\ lines[Len(lines)] = ""
    THEN StripRight(SubSeq(lines, 1, Len(lines) - 1))
    ELSE lines

Strip(lines) == StripRight(StripLeft(lines))

get_statin_recommendation(ck_value, transaminase, bilirubin, muscle_symptoms) ==
    Strip(CkSection(ck_value, muscle_symptoms) \o LiverSection(transaminase, bilirubin))

(***************************************************************************)
(* State.                                                                  *)
(***************************************************************************)
VARIABLES
    backend,      \* the store DATABASE_URI selects: "sqlite" (the default) or "postgresql"
    users,        \* rows of table user
    evaluations,  \* rows of table evaluation
    user_seq,     \* PostgreSQL's sequence behind user.id
    eval_seq,     \* PostgreSQL's sequence behind evaluation.id
    session,      \* the browser's signed session cookie
    req,          \* the web request between its identity lookup and its query or commit
    cli,          \* each operator's CLI command between its lookup and its commit
    limiter,      \* the rate limiter's storage: per key, the hits of the window and its expiry
    now,          \* the clock, in seconds
    hits,         \* history: the POST /login requests so far (address, second, verdict)
    last          \* the last exchange: the request or command and what it answered

vars == <<backend, users, evaluations, user_seq, eval_seq, session, req, cli, limiter, now,
          hits, last>>

\* The rate limiter's state and the clock it reads.
limits == <<limiter, now, hits>>

Backends == {"sqlite", "postgresql"}

\* SQLite checks FOREIGN KEY constraints only under PRAGMA foreign_keys=ON,
\* which the application never issues; PostgreSQL always checks them.
ForeignKeysEnforced == backend = "postgresql"

MaxOf(S) == IF S = {} THEN 0 ELSE CHOOSE m \in S : \A x \in S : x <= m

\* INTEGER PRIMARY KEY is SQLite's rowid (largest rowid in the table plus one);
\* PostgreSQL draws SERIAL keys from a sequence that never goes back.
NextUserId ==
    IF backend = "sqlite" THEN MaxOf({u.id : u \in users}) + 1 ELSE user_seq + 1

NextEvalId ==
    IF backend = "sqlite" THEN MaxOf({e.id : e \in evaluations}) + 1 ELSE eval_seq + 1

(***************************************************************************)
(* Data model (src/models.py).                                             *)
(***************************************************************************)
\* generate_password_hash: a salted hash that check_password_hash accepts for
\* the same password only.
generate_password_hash(password) == <<"pbkdf2:sha256", password>>

check_password(user, password) == user.password_hash = generate_password_hash(password)

User(id, username, full_name, password) ==
    [id |-> id, username |-> username, full_name |-> full_name,
     password_hash |-> generate_password_hash(password)]

\* select(User).where(User.username == username) ... scalar_one_or_none()
UserByName(username) == {u \in users : u.username = username}

\* db.get(User, user_id)
UserById(user_id) == {u \in users : u.id = user_id}

\* Mutant of Evaluation: ck_value and transaminase change places.
EvaluationSwapped(id, user_id, payload, recommendation, timestamp) ==
    [id |-> id, user_id |-> user_id, ck_value |-> payload.transaminase,
     transaminase |-> payload.ck_value, bilirubin |-> payload.bilirubin,
     muscle_symptoms |-> payload.muscle_symptoms,
     recommendation |-> recommendation, timestamp |-> timestamp]

Evaluation(id, user_id, payload, recommendation, timestamp) ==
    [id |-> id, user_id |-> user_id, ck_value |-> payload.ck_value,
     transaminase |-> payload.transaminase, bilirubin |-> payload.bilirubin,
     muscle_symptoms |-> payload.muscle_symptoms,
     recommendation |-> recommendation, timestamp |-> timestamp]

(***************************************************************************)
(* Sessions and identity (src/app.py).                                     *)
(***************************************************************************)
\* request.session.clear()
EmptySession == [user_id |-> {}, is_guest |-> {}, login_error |-> {}]

GuestUser ==
    [id |-> GUEST_ID, username |-> "guest", full_name |-> "Guest User", is_guest |-> TRUE]

\* What the handlers read of a User row; User.is_guest is False.
Identity(u) ==
    [id |-> u.id, username |-> u.username, full_name |-> u.full_name, is_guest |-> FALSE]

\* None is {}, a user is {user}.
get_current_user(s) ==
    IF TRUE \in s.is_guest
    THEN {GuestUser}
    ELSE IF s.user_id = {} \/ 0 \in s.user_id
    THEN {}
    ELSE {Identity(u) : u \in UNION {UserById(i) : i \in s.user_id}}

\* The session require_user leaves: the one-shot message is stored when no
\* identity resolves.
require_user_session(s) ==
    IF get_current_user(s) = {} THEN [s EXCEPT !.login_error = {MSG_LOGIN_FIRST}] ELSE s

\* Mutant of LoginSession: the session is not cleared and is_guest is not set.
LoginSessionNoClear(s, user) == [s EXCEPT !.user_id = {user.id}]

\* login: clear the session, then user_id and is_guest = False.
LoginSession(s, user) == [EmptySession EXCEPT !.user_id = {user.id}, !.is_guest = {FALSE}]

\* Mutant of GuestSession: the session is not cleared.
GuestSessionNoClear(s) == [s EXCEPT !.is_guest = {TRUE}]

\* guest_login: clear the session, then is_guest = True.
GuestSession(s) == [EmptySession EXCEPT !.is_guest = {TRUE}]

\* Mutant of CredentialsOk: the password is not checked.
CredentialsOkAnyPassword(found, password) == found # {}

\* login's test `not user or not user.check_password(password)`, negated.
CredentialsOk(found, password) == found # {} /\ \A u \in found : check_password(u, password)

NoRequest == [route |-> "none"]

Exchange(op, args, status, location, body) ==
    [op |-> op, args |-> args, status |-> status, location |-> location, body |-> body]

\* The operators who run CLI commands, and an operator with no command running.
Operators == {"op1", "op2"}
Idle == [cmd |-> "none"]

\* The client addresses requests come from (get_remote_address), and the
\* limiter's storage before any request: no key has a window.
Addresses == {"10.0.0.1", "10.0.0.2"}
NoWindow == [count |-> 0, expiry |-> 0]

\* Nothing is stored, nobody is logged in, no request or command is running.
Quiet ==
    /\ session = EmptySession
    /\ req = NoRequest
    /\ cli = [p \in Operators |-> Idle]
    /\ limiter = [k \in Addresses |-> NoWindow]
    /\ now = 0
    /\ hits = << >>
    /\ last = Exchange("start", << >>, 0, "", << >>)

Init ==
    /\ backend \in Backends
    /\ users = {}
    /\ evaluations = {}
    /\ user_seq = 0
    /\ eval_seq = 0
    /\ Quiet

(***************************************************************************)
(* Request bodies of POST /evaluate: JSON values as the client sends them, *)
(* and EvaluationPayload's validation of them.                             *)
(***************************************************************************)
Num(n) == [kind |-> "number", val |-> n]
Str(t) == [kind |-> "string", text |-> t]
Bool(b) == [kind |-> "boolean", val |-> b]
Missing == [kind |-> "missing"]

\* A float field: a JSON number.  The strings among the inputs do not read
\* as a number, and a missing field has no value.
ParseFloat(raw) == IF raw.kind = "number" THEN {raw.val} ELSE {}

\* A bool field: a JSON boolean, or the numbers 0 and 1.
ParseBool(raw) ==
    IF raw.kind = "boolean" THEN {raw.val}
    ELSE IF raw.kind = "number" /\ raw.val \in {0, 1} THEN {raw.val = 1}
    ELSE {}

RawPayload(ck, alt, bili, ms) ==
    [ck_value |-> ck, transaminase |-> alt, bilirubin |-> bili, muscle_symptoms |-> ms]

RawPayloads ==
    { RawPayload(Num(600), Num(40), Num(20), Bool(FALSE)),
      RawPayload(Str("abc"), Num(40), Num(20), Bool(FALSE)),
      RawPayload(Num(600), Num(40), Num(20), Missing) }

\* The fields EvaluationPayload rejects.
InvalidFields(raw) ==
    {f \in {"ck_value", "transaminase", "bilirubin"} : ParseFloat(raw[f]) = {}}
        \cup {f \in {"muscle_symptoms"} : ParseBool(raw[f]) = {}}

\* EvaluationPayload(**body): the parsed payload, {} when validation fails.
EvaluationPayload(raw) ==
    IF InvalidFields(raw) # {}
    THEN {}
    ELSE { [ck_value |-> ck, transaminase |-> alt, bilirubin |-> bili, muscle_symptoms |-> ms] :
             ck \in ParseFloat(raw.ck_value), alt \in ParseFloat(raw.transaminase),
             bili \in ParseFloat(raw.bilirubin), ms \in ParseBool(raw.muscle_symptoms) }

(***************************************************************************)
(* Queries.                                                                *)
(***************************************************************************)
\* Mutant of OwnEvaluations: the filter on user_id is dropped.
EveryEvaluation(user) == evaluations

\* .filter(Evaluation.user_id == user.id)
OwnEvaluations(user) == {e \in evaluations : e.user_id = user.id}

\* The search terms the browser sends, and str.lower of each.
SearchTerms == {"", "WITHDRAW", "zzz"}
Lower == [t \in SearchTerms |->
            IF t = "WITHDRAW" THEN "withdraw" ELSE t]

\* The lines of the engine's texts that contain each lower-cased term, compared
\* without regard to case.
LinesContaining ==
    [t \in {Lower[q] : q \in SearchTerms} |->
        IF t = "" THEN {CK_HYDRATE[1], CK_WITHDRAW[1], CK_WITHDRAW_SYMPTOMS[2],
                        CK_WITHDRAW_SYMPTOMS[3], CK_CONTINUE[1], LIVER_START[1],
                        LIVER_CONSIDER[1], LIVER_BILIRUBIN[1], LIVER_TRANSAMINASE[1], ""}
        ELSE IF t = "withdraw" THEN {CK_HYDRATE[1], CK_WITHDRAW[1]}
        ELSE {}]

\* Evaluation.recommendation.ilike(f"%{search_query}%")
ILike(recommendation, search_query) ==
    \E i \in 1..Len(recommendation) : recommendation[i] \in LinesContaining[Lower[search_query]]

\* base_query of dashboard: the caller's rows, narrowed by the search term if any.
DashboardQuery(user, search_query) ==
    IF search_query # ""
    THEN {e \in OwnEvaluations(user) : ILike(e.recommendation, search_query)}
    ELSE OwnEvaluations(user)

\* .order_by(Evaluation.timestamp.desc()): every order of the rows that is
\* newest first; rows of one timestamp come in any order.
RECURSIVE NewestFirst(_)
NewestFirst(rows) ==
    IF rows = {}
    THEN {<< >>}
    ELSE LET newest == {r \in rows : \A x \in rows : x.timestamp <= r.timestamp}
         IN  UNION {{<<r>> \o seq : seq \in NewestFirst(rows \ {r})} : r \in newest}

\* .offset(offset).limit(limit)
OffsetLimit(seq, offset, limit) ==
    SubSeq(seq, offset + 1, IF offset + limit < Len(seq) THEN offset + limit ELSE Len(seq))

\* The page parameter as the browser sends it.
PageParams == {Missing, Num(2), Str("abc")}

\* int(request.query_params.get("page", "1")), 1 on ValueError, then max(page, 1).
ParsePage(raw) ==
    LET page == IF raw.kind = "number" THEN raw.val ELSE 1
    IN  IF page > 1 THEN page ELSE 1

Pagination(items, page, per_page, total) ==
    [items |-> items, page |-> page, per_page |-> per_page, total |-> total]

\* math.ceil(a / b) for a >= 0 and b > 0
ceil(a, b) == (a + b - 1) \div b

\* Mutant of pages: the division rounds down.
pages_rounded_down(pagination) ==
    IF pagination.per_page = 0 THEN 0
    ELSE IF pagination.total \div pagination.per_page > 1
         THEN pagination.total \div pagination.per_page ELSE 1

\* Pagination.pages
pages(pagination) ==
    IF pagination.per_page = 0 THEN 0
    ELSE IF ceil(pagination.total, pagination.per_page) > 1
         THEN ceil(pagination.total, pagination.per_page) ELSE 1

\* Pagination.has_prev
has_prev(pagination) == pagination.page > 1

\* Pagination.has_next
has_next(pagination) == pagination.page < pages(pagination)

\* Pagination.prev_num: max(1, self.page - 1)
prev_num(pagination) == IF pagination.page - 1 > 1 THEN pagination.page - 1 ELSE 1

\* Pagination.next_num: min(self.pages, self.page + 1)
next_num(pagination) ==
    IF pages(pagination) < pagination.page + 1 THEN pages(pagination) ELSE pagination.page + 1

\* The gap marker iter_pages yields; a page number num is yielded as {num}.
None == {}

\* The loop of iter_pages from num on; shown is the loop's variable `last`,
\* the last number yielded so far.
RECURSIVE iter_pages_from(_, _, _, _, _, _, _)
iter_pages_from(pagination, num, shown, left_edge, left_current, right_current, right_edge) ==
    IF num > pages(pagination)
    THEN << >>
    ELSE IF \/ num <= left_edge
            \/ (pagination.page - left_current - 1 < num
                  /\ num < pagination.page + right_current)
            \/ num > pages(pagination) - right_edge
    THEN (IF shown + 1 # num THEN <<None>> ELSE << >>) \o <<{num}>>
            \o iter_pages_from(pagination, num + 1, num,
                               left_edge, left_current, right_current, right_edge)
    ELSE iter_pages_from(pagination, num + 1, shown,
                         left_edge, left_current, right_current, right_edge)

\* Pagination.iter_pages: what the generator yields, in order.
iter_pages(pagination, left_edge, left_current, right_current, right_edge) ==
    iter_pages_from(pagination, 1, 0, left_edge, left_current, right_current, right_edge)

\* iter_pages(): left_edge=2, left_current=2, right_current=2, right_edge=2
iter_pages_default(pagination) == iter_pages(pagination, 2, 2, 2, 2)

(***************************************************************************)
(* Web application (src/app.py).                                           *)
(***************************************************************************)
store == <<users, evaluations, user_seq, eval_seq>>

\* Mutant of extract_login_error: the message is read and left in the session.
extract_login_error_kept(s) == s

\* extract_login_error: request.session.pop("login_error", None)
extract_login_error(s) == [s EXCEPT !.login_error = {}]

\* GET /login
login_page ==
    /\ req = NoRequest
    /\ session' = extract_login_error(session)
    /\ last' = Exchange("GET /login", << >>, HTTP_200, "",
                        [template |-> "login.html", error |-> session.login_error])
    /\ UNCHANGED <<backend, cli, limits, store, req>>

\* POST /login behind @limiter.limit("5/minute").  admitted is the limiter's
\* verdict on the request: a request past the limit is answered by
\* rate_limit_handler and never reaches the handler.
login(username, password, admitted) ==
    LET args == [username |-> username, password |-> password]
        found == UserByName(username)
    IN  /\ req = NoRequest
        /\ IF ~admitted
           THEN /\ last' = Exchange("POST /login", args, HTTP_429, "",
                                    [success |-> FALSE])
                /\ session' = session
           ELSE IF CredentialsOk(found, password)
           THEN /\ session' = LoginSession(session, CHOOSE u \in found : TRUE)
                /\ last' = Exchange("POST /login", args, HTTP_303, "/tool", << >>)
           ELSE /\ session' = session
                /\ last' = Exchange("POST /login", args, HTTP_401, "",
                                    [template |-> "login.html",
                                     error |-> {MSG_BAD_CREDENTIALS},
                                     username |-> username])
        /\ UNCHANGED <<backend, cli, store, req>>

\* GET /guest_login
guest_login ==
    /\ req = NoRequest
    /\ session' = GuestSession(session)
    /\ last' = Exchange("GET /guest_login", << >>, HTTP_303, "/tool", << >>)
    /\ UNCHANGED <<backend, cli, limits, store, req>>

\* GET /logout
logout ==
    /\ req = NoRequest
    /\ session' = EmptySession
    /\ last' = Exchange("GET /logout", << >>, HTTP_303, "/login", << >>)
    /\ UNCHANGED <<backend, cli, limits, store, req>>

\* SessionMiddleware(max_age=SESSION_MAX_AGE_SECONDS): the cookie expires.
session_expires ==
    /\ req = NoRequest
    /\ session # EmptySession
    /\ session' = EmptySession
    /\ last' = Exchange("cookie expired", << >>, 0, "", << >>)
    /\ UNCHANGED <<backend, cli, limits, store, req>>

\* The first half of a protected page: require_user, and the redirect to
\* /login when it raises.
RequireUserOrRedirect(route) ==
    /\ req = NoRequest
    /\ session' = require_user_session(session)
    /\ IF get_current_user(session) = {}
       THEN /\ last' = Exchange(route, << >>, HTTP_303, "/login", << >>)
            /\ req' = req
       ELSE /\ last' = Exchange(route, << >>, 0, "", << >>)
            /\ req' = [route |-> route, user |-> CHOOSE u \in get_current_user(session) : TRUE]
    /\ UNCHANGED <<backend, cli, limits, store>>

\* tool's `if not getattr(user, "is_guest", False)`
ShowsHistory(user) == ~user.is_guest

\* GET /tool, up to require_user
tool_begin == RequireUserOrRedirect("GET /tool")

\* GET /tool, from the query on
tool_finish ==
    /\ req # NoRequest /\ req.route = "GET /tool"
    /\ \E seq \in NewestFirst(IF ShowsHistory(req.user) THEN OwnEvaluations(req.user) ELSE {}) :
          last' = Exchange("GET /tool", << >>, HTTP_200, "",
                           [template |-> "tool.html", user |-> req.user,
                            items |-> OffsetLimit(seq, 0, TOOL_RECENT_EVALS_COUNT)])
    /\ req' = NoRequest
    /\ UNCHANGED <<backend, cli, limits, store, session>>

\* Mutant of DashboardAllowed: the guest test is dropped.
DashboardAllowedAlways(user) == TRUE

\* dashboard's `if getattr(user, "is_guest", False)`, negated
DashboardAllowed(user) == ~user.is_guest

\* GET /dashboard, up to require_user
dashboard_begin == RequireUserOrRedirect("GET /dashboard")

\* GET /dashboard, from the guest test on
dashboard_finish(search_query, page_param) ==
    /\ req # NoRequest /\ req.route = "GET /dashboard"
    /\ LET args == [q |-> search_query, page |-> page_param]
           page == ParsePage(page_param)
           base_query == DashboardQuery(req.user, search_query)
       IN  IF ~DashboardAllowed(req.user)
           THEN last' = Exchange("GET /dashboard", args, HTTP_303, "/tool", << >>)
           ELSE \E seq \in NewestFirst(base_query) :
                  last' = Exchange("GET /dashboard", args, HTTP_200, "",
                            [template |-> "dashboard.html", user |-> req.user,
                             search_query |-> search_query,
                             items |-> OffsetLimit(seq, (page - 1) * DASHBOARD_ITEMS_PER_PAGE,
                                                   DASHBOARD_ITEMS_PER_PAGE),
                             pagination |->
                                Pagination(OffsetLimit(seq, (page - 1) * DASHBOARD_ITEMS_PER_PAGE,
                                                       DASHBOARD_ITEMS_PER_PAGE),
                                           page, DASHBOARD_ITEMS_PER_PAGE,
                                           Cardinality(base_query))])
    /\ req' = NoRequest
    /\ UNCHANGED <<backend, cli, limits, store, session>>

\* server_default=func.current_timestamp(): the second of the insert, kept as
\* its rank among the seconds of the stored rows: the second of the newest row,
\* or a later one.
current_timestamp ==
    LET newest == MaxOf({e.timestamp : e \in evaluations})
    IN  IF evaluations = {} THEN {0} ELSE {newest, newest + 1}

\* Mutant of ShouldPersist: the guest test is dropped.
ShouldPersistAlways(user) == TRUE

\* evaluate's `if not getattr(user, "is_guest", False)`
ShouldPersist(user) == ~user.is_guest

\* POST /evaluate, up to require_user.  The framework validates the body
\* against EvaluationPayload before it calls the handler, and answers a body
\* that fails with 422 and the list of the fields at fault.
evaluate_begin(raw) ==
    /\ req = NoRequest
    /\ IF EvaluationPayload(raw) = {}
       THEN /\ last' = Exchange("POST /evaluate", raw, HTTP_422, "",
                                [detail |-> InvalidFields(raw)])
            /\ UNCHANGED <<session, req>>
       ELSE /\ session' = require_user_session(session)
            /\ IF get_current_user(session) = {}
               THEN /\ last' = Exchange("POST /evaluate", raw, HTTP_401, "",
                                        [success |-> FALSE, error |-> MSG_AUTH_REQUIRED])
                    /\ req' = req
               ELSE /\ last' = Exchange("POST /evaluate", raw, 0, "", << >>)
                    /\ req' = [route |-> "POST /evaluate",
                               user |-> CHOOSE u \in get_current_user(session) : TRUE,
                               raw |-> raw,
                               payload |-> CHOOSE p \in EvaluationPayload(raw) : TRUE]
    /\ UNCHANGED <<backend, cli, limits, store>>

\* Mutant of DatabaseError: the failure is answered like a malformed input.
DatabaseErrorAsInvalidInput(raw) ==
    Exchange("POST /evaluate", raw, HTTP_400, "",
             [success |-> FALSE, error |-> MSG_INVALID_INPUT])

\* evaluate's `except SQLAlchemyError`: db.rollback(), then the 500 answer.
DatabaseError(raw) ==
    Exchange("POST /evaluate", raw, HTTP_500, "", [success |-> FALSE, error |-> MSG_DB_ERROR])

\* POST /evaluate, from get_statin_recommendation on.  storage_ok is whether
\* the store carries out the commit (a guest's request commits nothing); a
\* commit that fails raises SQLAlchemyError, and so does, where foreign keys
\* are enforced, the insert of a row whose user is gone.  The engine raises
\* nothing on a validated payload, so the handlers of ValueError, TypeError
\* and Exception have no step.
evaluate_finish(storage_ok) ==
    /\ req # NoRequest /\ req.route = "POST /evaluate"
    /\ LET recommendation ==
               get_statin_recommendation(req.payload.ck_value, req.payload.transaminase,
                                         req.payload.bilirubin, req.payload.muscle_symptoms)
           success == Exchange("POST /evaluate", req.raw, HTTP_200, "",
                               [success |-> TRUE, recommendation |-> recommendation])
           db_error == DatabaseError(req.raw)
       IN  IF ~ShouldPersist(req.user)
           THEN /\ storage_ok
                /\ last' = success
                /\ UNCHANGED store
           ELSE /\ NextEvalId <= MaxEvalId
                /\ eval_seq' = IF backend = "postgresql" THEN eval_seq + 1 ELSE eval_seq
                /\ IF storage_ok /\ (ForeignKeysEnforced => UserById(req.user.id) # {})
                   THEN /\ \E timestamp \in current_timestamp :
                              evaluations' = evaluations \cup
                                 {Evaluation(NextEvalId, req.user.id, req.payload,
                                             recommendation, timestamp)}
                        /\ last' = success
                   ELSE /\ evaluations' = evaluations
                        /\ last' = db_error
                /\ UNCHANGED <<users, user_seq>>
    /\ req' = NoRequest
    /\ UNCHANGED <<backend, cli, limits, session>>

(***************************************************************************)
(* Administrative CLI (src/app.py).                                        *)
(***************************************************************************)
\* Mutant of UsernameTaken: the existence check never finds a user.
UsernameNeverTaken(username) == FALSE

\* create_user's `if existing_user`
UsernameTaken(username) == UserByName(username) # {}

CreateUserArgs(username, full_name, password) ==
    [username |-> username, full_name |-> full_name, password |-> password]

\* What a create-user command leaves on the terminal: the red error line
\* ("exists"), the green success line ("created"), or the traceback of the
\* IntegrityError that db.commit() raises and nothing catches.
CreateUserOutcome(args, outcome) ==
    Exchange("create-user", args, 0, "", [outcome |-> outcome])

\* create-user, run while no other command commits between its existence
\* check and its commit.
create_user(username, full_name, password) ==
    /\ LET args == CreateUserArgs(username, full_name, password)
       IN  IF UsernameTaken(username)
           THEN /\ last' = CreateUserOutcome(args, "exists")
                /\ UNCHANGED store
           ELSE /\ NextUserId <= MaxUserId
                /\ users' = users \cup {User(NextUserId, username, full_name, password)}
                /\ user_seq' = IF backend = "postgresql" THEN user_seq + 1 ELSE user_seq
                /\ last' = CreateUserOutcome(args, "created")
                /\ UNCHANGED <<evaluations, eval_seq>>
    /\ UNCHANGED <<backend, cli, limits, session, req>>

\* create-user by operator p, up to the existence check.
create_user_begin(p, username, full_name, password) ==
    /\ cli[p] = Idle
    /\ LET args == CreateUserArgs(username, full_name, password)
       IN  IF UsernameTaken(username)
           THEN /\ last' = CreateUserOutcome(args, "exists")
                /\ cli' = cli
           ELSE /\ last' = CreateUserOutcome(args, "checked")
                /\ cli' = [cli EXCEPT ![p] = [cmd |-> "create-user", args |-> args]]
    /\ UNCHANGED <<backend, store, limits, session, req>>

\* create-user by operator p, from db.add on.  The INSERT takes the next
\* key; the store rejects it when a row with the username has been committed
\* since the check (unique=True), and the command ends in the exception.
create_user_commit(p) ==
    /\ cli[p] # Idle /\ cli[p].cmd = "create-user"
    /\ NextUserId <= MaxUserId
    /\ user_seq' = IF backend = "postgresql" THEN user_seq + 1 ELSE user_seq
    /\ IF UserByName(cli[p].args.username) # {}
       THEN /\ users' = users
            /\ last' = CreateUserOutcome(cli[p].args, "IntegrityError")
       ELSE /\ users' = users \cup {User(NextUserId, cli[p].args.username,
                                         cli[p].args.full_name, cli[p].args.password)}
            /\ last' = CreateUserOutcome(cli[p].args, "created")
    /\ cli' = [cli EXCEPT ![p] = Idle]
    /\ UNCHANGED <<backend, evaluations, eval_seq, limits, session, req>>

\* Mutant of delete_cascade: the user's evaluations are left in place.
delete_without_cascade(user) == evaluations

\* relationship(..., cascade="all, delete-orphan"): db.delete(user) deletes
\* the evaluations that select on user_id = user.id returns, then the user.
delete_cascade(user) == {e \in evaluations : e.user_id # user.id}

\* delete-user; confirmed is the operator's answer to click.confirm.
delete_user(username, confirmed) ==
    /\ LET args == [username |-> username, confirmed |-> confirmed]
           found == UserByName(username)
       IN  IF found = {}
           THEN /\ last' = Exchange("delete-user", args, 0, "", [error |-> TRUE, deleted |-> FALSE])
                /\ UNCHANGED store
           ELSE IF ~confirmed
           THEN /\ last' = Exchange("delete-user", args, 0, "", [error |-> FALSE, deleted |-> FALSE])
                /\ UNCHANGED store
           ELSE /\ users' = users \ found
                /\ evaluations' = delete_cascade(CHOOSE u \in found : TRUE)
                /\ last' = Exchange("delete-user", args, 0, "", [error |-> FALSE, deleted |-> TRUE])
                /\ UNCHANGED <<user_seq, eval_seq>>
    /\ UNCHANGED <<backend, cli, limits, session, req>>

(***************************************************************************)
(* The system.                                                             *)
(***************************************************************************)
Next ==
    \/ login_page
    \/ \E username \in Usernames, password \in Passwords, admitted \in BOOLEAN :
          login(username, password, admitted) /\ UNCHANGED limits
    \/ guest_login
    \/ logout
    \/ session_expires
    \/ tool_begin
    \/ tool_finish
    \/ dashboard_begin
    \/ \E search_query \in SearchTerms, page_param \in PageParams :
          dashboard_finish(search_query, page_param)
    \/ \E raw \in RawPayloads : evaluate_begin(raw)
    \/ \E storage_ok \in BOOLEAN : evaluate_finish(storage_ok)
    \/ \E username \in Usernames : create_user(username, "Dr. A", "pw1")
    \/ \E username \in Usernames, confirmed \in BOOLEAN : delete_user(username, confirmed)

Spec == Init /\ [][Next]_vars

(***************************************************************************)
(* The CLI alone: two operators run commands against one store, and a      *)
(* command's existence check and its commit are separate steps.            *)
(***************************************************************************)
FullNames == {"Dr. A", "Dr. B"}

NextCli ==
    \/ \E p \in Operators, username \in Usernames, full_name \in FullNames,
          password \in Passwords : create_user_begin(p, username, full_name, password)
    \/ \E p \in Operators : create_user_commit(p)
    \/ \E username \in Usernames, confirmed \in BOOLEAN : delete_user(username, confirmed)

SpecCli == Init /\ [][NextCli]_vars

(***************************************************************************)
(* The recommendation engine behind POST /evaluate: a guest submits lab    *)
(* values on and around every threshold of the engine.                     *)
(***************************************************************************)
CkValues == {0, 600, 601, 2000, 2001, 5000}
TransaminaseValues == {0, 40, 41, 120, 121, 500}
\* tenths of mg/dL
BilirubinValues == {0, 20, 21}

EngineRequests ==
    {RawPayload(Num(ck), Num(alt), Num(bili), Bool(ms)) :
        ck \in CkValues, alt \in TransaminaseValues, bili \in BilirubinValues,
        ms \in BOOLEAN}

InitEngine ==
    /\ backend \in Backends
    /\ users = {}
    /\ evaluations = {}
    /\ user_seq = 0
    /\ eval_seq = 0
    /\ session = GuestSession(EmptySession)
    /\ req = NoRequest
    /\ cli = [p \in Operators |-> Idle]
    /\ limiter = [k \in Addresses |-> NoWindow]
    /\ now = 0
    /\ hits = << >>
    /\ last = Exchange("GET /guest_login", << >>, HTTP_303, "/tool", << >>)

NextEngine ==
    \/ \E raw \in EngineRequests : evaluate_begin(raw)
    \/ \E storage_ok \in BOOLEAN : evaluate_finish(storage_ok)

SpecEngine == InitEngine /\ [][NextEngine]_vars

(***************************************************************************)
(* The dashboard over a long history: a registered user is logged in and   *)
(* has stored some number of evaluations, one per second; the browser asks *)
(* for the pages of the dashboard.                                         *)
(***************************************************************************)
\* The evaluations 1..n of user 1, stored in the order of their ids.
History(n) ==
    {Evaluation(i, 1, [ck_value |-> 600, transaminase |-> 40, bilirubin |-> 20,
                       muscle_symptoms |-> FALSE],
                get_statin_recommendation(600, 40, 20, FALSE), i) : i \in 1..n}

InitPages ==
    /\ backend \in Backends
    /\ users = {User(1, "alice", "Dr. A", "pw1")}
    /\ \E n \in 0..MaxStored : evaluations = History(n) /\ eval_seq = n
    /\ user_seq = 1
    /\ session = LoginSession(EmptySession, User(1, "alice", "Dr. A", "pw1"))
    /\ req = NoRequest
    /\ cli = [p \in Operators |-> Idle]
    /\ limiter = [k \in Addresses |-> NoWindow]
    /\ now = 0
    /\ hits = << >>
    /\ last = Exchange("POST /login", [username |-> "alice", password |-> "pw1"],
                       HTTP_303, "/tool", << >>)

NextPages ==
    \/ dashboard_begin
    \/ \E page \in 1..MaxPage : dashboard_finish("", Num(page))

SpecPages == InitPages /\ [][NextPages]_vars

(***************************************************************************)
(* The Pagination helper on its own: a Pagination is constructed from a    *)
(* page, a page size and a total, and the template reads its members.      *)
(***************************************************************************)
PerPages == {0, 1, 3, DASHBOARD_ITEMS_PER_PAGE}

InitPagination ==
    /\ backend = "sqlite"
    /\ users = {}
    /\ evaluations = {}
    /\ user_seq = 0
    /\ eval_seq = 0
    /\ session = EmptySession
    /\ \E page \in 1..MaxRequestedPage, per_page \in PerPages, total \in 0..MaxTotal :
          req = [route |-> "Pagination",
                 pagination |-> Pagination(<< >>, page, per_page, total)]
    /\ cli = [p \in Operators |-> Idle]
    /\ limiter = [k \in Addresses |-> NoWindow]
    /\ now = 0
    /\ hits = << >>
    /\ last = Exchange("start", << >>, 0, "", << >>)

\* The members of the Pagination, as a template reads them.
read_pagination ==
    /\ req.route = "Pagination"
    /\ last' = Exchange("Pagination", req.pagination, 0, "",
                        [pages |-> pages(req.pagination),
                         has_prev |-> has_prev(req.pagination),
                         has_next |-> has_next(req.pagination),
                         prev_num |-> prev_num(req.pagination),
                         next_num |-> next_num(req.pagination),
                         iter_pages |-> iter_pages_default(req.pagination)])
    /\ req' = NoRequest
    /\ UNCHANGED <<backend, cli, limits, store, session>>

NextPagination == read_pagination

SpecPagination == InitPagination /\ [][NextPagination]_vars

(***************************************************************************)
(* The rate limiter in front of POST /login (slowapi over the limits       *)
(* library, in-memory storage, fixed-window strategy): a key's window      *)
(* opens with its first hit and lasts the period of the limit; every hit   *)
(* counts, and a hit is admitted while the count is within the limit.      *)
(***************************************************************************)
\* @limiter.limit("5/minute")
LOGIN_LIMIT == 5
MINUTE == 60

\* Mutant of get_remote_address: every request counts under one key.
OneKeyForAll(address) == "10.0.0.1"

\* key_func=get_remote_address: the key of a request is its client address.
get_remote_address(address) == address

\* The window of a key as a hit finds it: an expired window is dropped.
LiveWindow(key) == IF limiter[key].expiry <= now THEN NoWindow ELSE limiter[key]

\* The window after a hit: the count goes up, and the first hit sets the expiry.
Hit(key) ==
    LET window == LiveWindow(key)
    IN  [count |-> window.count + 1,
         expiry |-> IF window.count = 0 THEN now + MINUTE ELSE window.expiry]

\* A POST /login from a client address: the limiter's hit, then the handler
\* or rate_limit_handler.
limited_login(address, username, password) ==
    LET key == get_remote_address(address)
        admitted == Hit(key).count <= LOGIN_LIMIT
    IN  /\ Len(hits) < MaxLoginRequests
        /\ limiter' = [limiter EXCEPT ![key] = Hit(key)]
        /\ hits' = Append(hits, [address |-> address, time |-> now, admitted |-> admitted])
        /\ now' = now
        /\ login(username, password, admitted)

\* Time passes.
ClockSteps == {30, 60}

tick(seconds) ==
    /\ now + seconds <= MaxClock
    /\ now' = now + seconds
    /\ last' = Exchange("tick", << >>, 0, "", << >>)
    /\ UNCHANGED <<backend, store, session, req, cli, limiter, hits>>

\* One registered user on the default store.
InitLimiter ==
    /\ backend = "sqlite"
    /\ users = {User(1, "alice", "Dr. A", "pw1")}
    /\ evaluations = {}
    /\ user_seq = 1
    /\ eval_seq = 0
    /\ Quiet

NextLimiter ==
    \/ \E address \in Addresses, password \in Passwords :
          limited_login(address, "alice", password)
    \/ \E seconds \in ClockSteps : tick(seconds)

SpecLimiter == InitLimiter /\ [][NextLimiter]_vars

(***************************************************************************)
(* Properties.  A step that answers a request is recognised by the         *)
(* exchange it leaves in last; status 0 is a request still in progress.    *)
(* POST /login is read as a request the rate limiter admits: the answer    *)
(* 429 is the limiter's, not the handler's.                                *)
(***************************************************************************)
IsGuestSession(s) == TRUE \in s.is_guest
IsRegisteredSession(s) == ~IsGuestSession(s) /\ get_current_user(s) # {}
Answered(op, status) == last.op = op /\ last.status = status

\* The recommendation the engine gives for a valid request body.
RecommendationFor(raw) ==
    get_statin_recommendation(raw.ck_value.val, raw.transaminase.val, raw.bilirubin.val,
                              raw.muscle_symptoms.val)

\* C1: a POST /evaluate under a guest session that succeeds answers
\* success:true with the recommendation for the submitted values and leaves
\* the Evaluation rows as they were; no Evaluation row ever carries the guest
\* id 0.
C1_GuestEvaluationNotPersisted ==
    /\ [][ (IsGuestSession(session) /\ Answered("POST /evaluate", HTTP_200)')
            => /\ evaluations' = evaluations
               /\ last'.body.success
               /\ last'.body.recommendation = RecommendationFor(last'.args) ]_vars
    /\ [](\A e \in evaluations : e.user_id # GUEST_ID)

C1_Witness ==
    /\ Answered("POST /evaluate", HTTP_200)
    /\ IsGuestSession(session)
    /\ evaluations # {}

\* C2: a POST /evaluate by a registered user that succeeds adds exactly one
\* Evaluation row, with a fresh id, the caller's id as user_id, the four
\* submitted values and the recommendation of the response; every row that
\* was there stays as it was.
C2_RegisteredEvaluationAddsOneRow ==
    [][ (~IsGuestSession(session) /\ Answered("POST /evaluate", HTTP_200)')
         => \E e \in evaluations' :
              /\ e \notin evaluations
              /\ evaluations' = evaluations \cup {e}
              /\ \A x \in evaluations : x.id # e.id
              /\ session.user_id = {e.user_id}
              /\ last'.args.ck_value = Num(e.ck_value)
              /\ last'.args.transaminase = Num(e.transaminase)
              /\ last'.args.bilirubin = Num(e.bilirubin)
              /\ last'.args.muscle_symptoms = Bool(e.muscle_symptoms)
              /\ last'.body.success
              /\ e.recommendation = last'.body.recommendation ]_vars

C2_Witness ==
    /\ Answered("POST /evaluate", HTTP_200)
    /\ session.user_id # {}
    /\ Cardinality(evaluations) = 2

\* C3: a POST /evaluate from a caller with no resolved identity is answered
\* 401 with {success:false, error:"Authentication required."}, never a
\* redirect, and creates no Evaluation row.
C3_UnauthenticatedEvaluateIs401 ==
    [][ (req = NoRequest /\ get_current_user(session) = {} /\ last'.op = "POST /evaluate")
         => /\ last'.status = HTTP_401
            /\ last'.body = [success |-> FALSE, error |-> MSG_AUTH_REQUIRED]
            /\ last'.location = ""
            /\ evaluations' = evaluations ]_vars

\* C4: a POST /evaluate whose body has a non-numeric or missing required
\* field is answered 400 with success:false and the generic invalid-input
\* message, and creates no Evaluation row, whatever the session.
C4_InvalidBodyIs400 ==
    [][ (req = NoRequest /\ last'.op = "POST /evaluate" /\ InvalidFields(last'.args) # {})
         => /\ last'.status = HTTP_400
            /\ last'.body = [success |-> FALSE, error |-> MSG_INVALID_INPUT]
            /\ evaluations' = evaluations ]_vars

\* C5: a session never holds a user id together with is_guest = true.
C5_SessionOneIdentity == ~(session.user_id # {} /\ TRUE \in session.is_guest)

C5_Witness ==
    /\ Answered("GET /guest_login", HTTP_303)
    /\ IsGuestSession(session)
    /\ users # {}

\* C6: every Evaluation row's user_id is the id of a User row.
C6_EvaluationOwnerExists == \A e \in evaluations : \E u \in users : u.id = e.user_id

\* C7: after a successful POST /login for user U the session holds exactly
\* user_id = U.id and is_guest = false, identity resolution yields U, and the
\* answer is a 303 redirect to /tool, whatever the session held before.
C7_LoginEstablishesUser ==
    [][ Answered("POST /login", HTTP_303)'
         => \E u \in users :
              /\ u.username = last'.args.username
              /\ u.password_hash = generate_password_hash(last'.args.password)
              /\ session' = [user_id |-> {u.id}, is_guest |-> {FALSE}, login_error |-> {}]
              /\ get_current_user(session)' = {Identity(u)}
              /\ last'.location = "/tool" ]_vars

C7_Witness ==
    /\ Answered("POST /login", HTTP_303)
    /\ session.user_id = {2}
    /\ Cardinality(users) = 2

\* C8: a POST /login (one the rate limiter admits) with an unknown username
\* or a wrong password is answered with the login page, status 401 and the
\* submitted username, and leaves the session and the identity it resolves
\* to as they were.
C8_FailedLoginKeepsSession ==
    [][ (/\ last'.op = "POST /login"
         /\ last'.status # HTTP_429
         /\ \A u \in users : u.username = last'.args.username
               => u.password_hash # generate_password_hash(last'.args.password))
         => /\ last'.status = HTTP_401
            /\ last'.body.template = "login.html"
            /\ last'.body.username = last'.args.username
            /\ session' = session
            /\ get_current_user(session)' = get_current_user(session) ]_vars

C8_Witness ==
    /\ Answered("POST /login", HTTP_401)
    /\ IsRegisteredSession(session)
    /\ \E u \in users : u.username = last.args.username

\* C9: every Evaluation that GET /tool or GET /dashboard shows to a
\* registered caller has the caller's id as user_id.
C9_PagesShowOwnEvaluations ==
    (last.op \in {"GET /tool", "GET /dashboard"} /\ last.status = HTTP_200)
        => \A i \in 1..Len(last.body.items) :
              /\ session.user_id = {last.body.items[i].user_id}
              /\ last.body.user.id = last.body.items[i].user_id

C9_Witness ==
    /\ Answered("GET /dashboard", HTTP_200)
    /\ Len(last.body.items) > 0
    /\ \E e \in evaluations : e.user_id \notin session.user_id

\* C10: GET /dashboard answers a guest session with a 303 redirect to /tool
\* and a caller with no resolved identity with a 303 redirect to /login; it
\* renders the page, the only answer that carries Evaluations, for a
\* registered session only.
C10_DashboardRegisteredOnly ==
    [][ (last'.op = "GET /dashboard" /\ last'.status # 0)
         => /\ IsGuestSession(session)
                  => last'.status = HTTP_303 /\ last'.location = "/tool"
            /\ (req = NoRequest /\ get_current_user(session) = {})
                  => last'.status = HTTP_303 /\ last'.location = "/login"
            /\ last'.status \in {HTTP_200, HTTP_303}
            /\ last'.status = HTTP_200
                  => session.user_id # {} /\ ~IsGuestSession(session) ]_vars

C10_Witness ==
    /\ Answered("GET /dashboard", HTTP_303)
    /\ last.location = "/tool"
    /\ IsGuestSession(session)
    /\ evaluations # {}

\* C11: a confirmed delete-user of user U removes U's row and every
\* Evaluation whose user_id is U's id, and leaves every other User row and
\* every Evaluation of another user as it was.
C11_DeleteUserCascades ==
    [][ (last'.op = "delete-user" /\ last'.body.deleted)
         => \E u \in users :
              /\ u.username = last'.args.username
              /\ last'.args.confirmed
              /\ users' = users \ {u}
              /\ evaluations' = {e \in evaluations : e.user_id # u.id} ]_vars

C11_Witness ==
    /\ last.op = "delete-user" /\ last.body.deleted
    /\ users # {}
    /\ \E e \in evaluations : \E u \in users : e.user_id = u.id

\* C12: a create-user whose username already exists when the command looks
\* it up (the step is the start of a command: no running command ends in it)
\* prints the error and leaves the store as it was: the same number of
\* users, and the existing user's full name and password hash untouched.
C12_CreateExistingUserChangesNothing ==
    [][ (/\ last'.op = "create-user"
         /\ \A p \in Operators : cli[p] # Idle => cli'[p] = cli[p]
         /\ \E u \in users : u.username = last'.args.username)
         => /\ last'.body.outcome = "exists"
            /\ Cardinality(users') = Cardinality(users)
            /\ \A u \in users : u.username = last'.args.username
                  => \E v \in users' : /\ v.username = u.username
                                       /\ v.full_name = u.full_name
                                       /\ v.password_hash = u.password_hash
            /\ UNCHANGED store ]_vars

C12_Witness ==
    /\ last.op = "create-user" /\ last.body.outcome = "exists"
    /\ \E u \in users : /\ u.username = last.args.username
                        /\ u.full_name # last.args.full_name
                        /\ u.password_hash # generate_password_hash(last.args.password)
    /\ Cardinality(users) = 2

\* C19: when a create-user commits after another create-user for the same
\* username has committed since its existence check, the command reports the
\* conflict as its error and creates no second row; it does not end in an
\* unhandled exception.
C19_LateConflictIsReported ==
    [][ \A p \in Operators :
          (/\ cli[p] # Idle /\ cli[p].cmd = "create-user" /\ cli'[p] = Idle
           /\ UserByName(cli[p].args.username) # {})
          => /\ users' = users
             /\ last'.body.outcome = "exists" ]_vars

\* The requests of the log that came from the address of request i.
SameAddress(i) == {j \in 1..Len(hits) : hits[j].address = hits[i].address}

\* Request s opens a minute of its address: no earlier request of the address
\* came in the sixty seconds before it.
OpensMinute(s) == \A j \in SameAddress(s) : j < s => hits[j].time + MINUTE <= hits[s].time

Min(a, b) == IF a < b THEN a ELSE b
Max(a, b) == IF a > b THEN a ELSE b

\* The least k with k * d >= n.
LeastMultiple(n, d) == CHOOSE k \in 0..n : k * d >= n /\ (k = 0 \/ (k - 1) * d < n)

\* C14: for a registered user with N stored evaluations, no search term and
\* a requested page p >= 1, the dashboard shows min(10, max(0, N - 10(p-1)))
\* items, pages is max(1, ceil(N/10)), has_next is p < pages and has_prev is
\* p > 1; with N = 25, pages 1 and 2 hold 10 items, page 3 holds 5, and pages
\* is 3.
C14_DashboardPageSizes ==
    (/\ Answered("GET /dashboard", HTTP_200)
     /\ last.args.q = ""
     /\ last.args.page.kind = "number" /\ last.args.page.val >= 1)
    => LET N == Cardinality({e \in evaluations : e.user_id = last.body.user.id})
           p == last.args.page.val
           pagination == last.body.pagination
       IN  /\ Len(pagination.items) = Min(10, Max(0, N - 10 * (p - 1)))
           /\ pages(pagination) = Max(1, LeastMultiple(N, 10))
           /\ has_next(pagination) <=> p < pages(pagination)
           /\ has_prev(pagination) <=> p > 1
           /\ N = 25 => /\ pages(pagination) = 3
                        /\ p \in {1, 2} => Len(pagination.items) = 10
                        /\ p = 3 => Len(pagination.items) = 5

C14_Witness ==
    /\ Answered("GET /dashboard", HTTP_200)
    /\ Cardinality(evaluations) = 25
    /\ last.args.page = Num(3)
    /\ Len(last.body.pagination.items) = 5
    /\ ~has_next(last.body.pagination) /\ has_prev(last.body.pagination)

\* The two sections of a recommendation: the liver section is its last line,
\* the CK section is what stands before it, without the blank line between.
LiverPart(recommendation) == <<recommendation[Len(recommendation)]>>
CkPart(recommendation) == Strip(SubSeq(recommendation, 1, Len(recommendation) - 1))

\* C15: the CK section is decided by ck and muscleSymptoms alone, first
\* matching branch first: ck > 2000 gives the hydrate line whatever
\* muscleSymptoms is; 600 < ck <= 2000 gives the withdraw line whatever
\* muscleSymptoms is; ck <= 600 gives the three lines on withdrawal,
\* reinitiation and the specialist with muscleSymptoms and the continue line
\* without.  Transaminase and bilirubin have no part in it.
C15_CkSectionByFirstBranch ==
    Answered("POST /evaluate", HTTP_200)
    => LET ck == last.args.ck_value.val
           symptoms == last.args.muscle_symptoms.val
           section == CkPart(last.body.recommendation)
       IN  /\ ck > 2000
                => section = <<"CK: Withdraw statin, hydrate, and monitor renal function.">>
           /\ (600 < ck /\ ck <= 2000)
                => section = <<"CK: Withdraw statin. Consider nonstatin-related causes and modify risk factors.">>
           /\ (ck <= 600 /\ symptoms)
                => section = SubSeq(CK_WITHDRAW_SYMPTOMS, 1, 3)
           /\ (ck <= 600 /\ ~symptoms)
                => section = <<CK_CONTINUE[1]>>

C15_Witness ==
    /\ Answered("POST /evaluate", HTTP_200)
    /\ last.args.ck_value = Num(600)
    /\ last.args.muscle_symptoms = Bool(TRUE)
    /\ last.args.transaminase = Num(121)
    /\ Len(CkPart(last.body.recommendation)) = 3

\* C16: the liver section is decided by transaminase and bilirubin alone,
\* the upper boundaries included: alt <= 40 gives "Start statin"; 40 < alt <=
\* 120 gives "Consider starting statin" when bilirubin <= 2.0 and "Do not
\* start statin. Bilirubin > 2 mg/dL" otherwise; alt > 120 gives "Do not
\* start statin. Transaminase > 3x ULN" whatever bilirubin is.  ck and
\* muscleSymptoms have no part in it.
C16_LiverSectionByThresholds ==
    Answered("POST /evaluate", HTTP_200)
    => LET alt == last.args.transaminase.val
           bilirubin == last.args.bilirubin.val
           section == LiverPart(last.body.recommendation)
       IN  /\ alt <= 40 => section = LIVER_START
           /\ (40 < alt /\ alt <= 120 /\ bilirubin <= 20) => section = LIVER_CONSIDER
           /\ (40 < alt /\ alt <= 120 /\ bilirubin > 20) => section = LIVER_BILIRUBIN
           /\ alt > 120 => section = LIVER_TRANSAMINASE

C16_Witness ==
    /\ Answered("POST /evaluate", HTTP_200)
    /\ last.args.transaminase = Num(120)
    /\ last.args.bilirubin = Num(20)
    /\ last.args.ck_value = Num(5000)
    /\ LiverPart(last.body.recommendation) = LIVER_CONSIDER

\* C17: the one-shot login error is read and cleared.  A protected request
\* without identity stores the message; a GET /login displays what is stored
\* and leaves none in the session; and a message comes into the session by
\* an unauthenticated protected request only, so that a further GET /login
\* with no such request in between displays no error.
C17_LoginErrorReadAndClear ==
    [][ /\ (/\ last'.op \in {"GET /tool", "GET /dashboard"}
            /\ last'.status = HTTP_303 /\ last'.location = "/login")
           => session'.login_error = {MSG_LOGIN_FIRST}
        /\ last'.op = "GET /login"
           => /\ last'.body.error = session.login_error
              /\ session'.login_error = {}
        /\ (session.login_error = {} /\ session'.login_error # {})
           => /\ get_current_user(session) = {}
              /\ \/ /\ last'.op \in {"GET /tool", "GET /dashboard"}
                    /\ last'.status = HTTP_303 /\ last'.location = "/login"
                 \/ /\ last'.op = "POST /evaluate"
                    /\ last'.status = HTTP_401 ]_vars

C17_Witness ==
    /\ Answered("GET /login", HTTP_200)
    /\ last.body.error = {MSG_LOGIN_FIRST}
    /\ session.login_error = {}

\* C18: a session that carries the id of a deleted user (an id no User row
\* has) resolves to no identity, and keeps resolving to none for as long as
\* it carries that id, whatever users are created meanwhile; a protected
\* page answers it with the redirect to /login, and POST /evaluate with 401
\* and no new row.
C18_DeletedUserSessionNeverResolves ==
    [][ (/\ session.user_id # {} /\ ~IsGuestSession(session)
         /\ get_current_user(session) = {}
         /\ session'.user_id = session.user_id /\ session'.is_guest = session.is_guest)
         => /\ get_current_user(session)' = {}
            /\ (req = NoRequest /\ last'.op \in {"GET /tool", "GET /dashboard"})
                  => last'.status = HTTP_303 /\ last'.location = "/login"
            /\ (req = NoRequest /\ last'.op = "POST /evaluate"
                  /\ InvalidFields(last'.args) = {})
                  => last'.status = HTTP_401 /\ evaluations' = evaluations ]_vars

\* C20: a POST /evaluate of a registered user ends in one of two ways: the
\* row is stored and the answer is 200 with the recommendation, or the store
\* failed, no row of the request exists (every row is as it was before) and
\* the answer is 500 with {success:false, error:"A database error
\* occurred."}.
C20_StorageFailureRolledBack ==
    [][ (req.route = "POST /evaluate" /\ ShouldPersist(req.user) /\ req' = NoRequest)
         => \/ /\ last'.status = HTTP_200
               /\ last'.body.success
               /\ \E e \in evaluations' : e \notin evaluations
                                          /\ evaluations' = evaluations \cup {e}
            \/ /\ last'.status = HTTP_500
               /\ last'.body = [success |-> FALSE, error |-> MSG_DB_ERROR]
               /\ evaluations' = evaluations ]_vars

C20_Witness ==
    /\ Answered("POST /evaluate", HTTP_500)
    /\ IsRegisteredSession(session)
    /\ evaluations # {}

\* C21: for every Pagination with page >= 1, per_page >= 0 and total >= 0,
\* a page past the last one included, prev_num and next_num both lie in
\* 1..pages.
C21_PrevAndNextWithinPages ==
    (last.op = "Pagination"
       /\ last.args.page >= 1 /\ last.args.per_page >= 0 /\ last.args.total >= 0)
    => /\ 1 <= last.body.prev_num /\ last.body.prev_num <= last.body.pages
       /\ 1 <= last.body.next_num /\ last.body.next_num <= last.body.pages

\* The page numbers the claim lists for a Pagination: the first two, the last
\* two, and the current page with two pages on each side.
ListedPages(pagination) ==
    {n \in 1..pages(pagination) :
        \/ n <= 2
        \/ n > pages(pagination) - 2
        \/ (pagination.page - 2 <= n /\ n <= pagination.page + 2)}

\* The numbers of a set from n on in increasing order, each as {n}, with one
\* gap marker before each number that does not directly follow the number
\* before it; previous is the number before, 0 at the start.
RECURSIVE WithGaps(_, _, _, _)
WithGaps(numbers, n, previous, top) ==
    IF n > top THEN << >>
    ELSE IF n \in numbers
    THEN (IF previous + 1 # n THEN <<{}>> ELSE << >>) \o <<{n}>>
            \o WithGaps(numbers, n + 1, n, top)
    ELSE WithGaps(numbers, n + 1, previous, top)

\* C22: iter_pages with its default arguments yields, in increasing order,
\* exactly the page numbers n of 1..pages with n <= 2, n > pages - 2 or
\* page - 2 <= n <= page + 2, and exactly one gap marker before each yielded
\* number that does not directly follow the number yielded before it.
C22_IterPagesTwoEachSide ==
    last.op = "Pagination"
    => last.body.iter_pages
          = WithGaps(ListedPages(last.args), 1, 0, pages(last.args))

====
